---- MODULE Spec2Model ----
(***************************************************************************)
(* EducationalProgramBot (src/main.py): load_data turns the rows of a      *)
(* spreadsheet into (ep_code, ep_name, cipher_code) records, carrying the  *)
(* code and name of a program row forward to the cipher-only rows below    *)
(* it; search_programs answers a cipher query from those records, exact    *)
(* matches first, then pattern matches, de-duplicated.                     *)
(*                                                                         *)
(* A string is a sequence of one-character strings.  A value that is not   *)
(* a string (an empty cell, None) is a one-element sequence holding a      *)
(* longer word, which no string can equal.  Cells are text cells or empty  *)
(* cells; numeric cells are not modelled.                                  *)
(***************************************************************************)
EXTENDS Integers, Sequences, FiniteSets, TLC

VARIABLES
    pc,               \* "start": in __init__ before read_excel; "iter": in the
                      \* row loop of load_data; "ready": load_data has returned
    raw,              \* the rows of the raw frame that iterrows has yielded;
                      \* the last one is the loop variable row
    current_ep_code,  \* load_data's carry-forward code
    current_ep_name,  \* load_data's carry-forward name
    processed_data,   \* load_data's list of emitted records
    data,             \* the records of self.data; empty until load_data
                      \* replaces the raw frame, and no handler runs before
    logged,           \* level of load_data's last log record about the load
    query,            \* argument of the last search_programs call
    results,          \* what that call returned
    raised,           \* whether that call raised instead of returning
    status_text,      \* what the last /status command reported
    memo              \* history: one earlier search call and its answer

vars == <<pc, raw, current_ep_code, current_ep_name, processed_data,
          data, logged, query, results, raised, status_text, memo>>

loadVars == <<pc, raw, current_ep_code, current_ep_name, processed_data,
              data, logged>>
searchVars == <<query, results, raised, memo>>

(***************************************************************************)
(* Bounds and program constants.                                           *)
(***************************************************************************)
MaxRows == 3        \* rows of the sheet
MaxCols == 4        \* columns of the sheet
MinColumns == 3     \* load_data refuses a sheet with fewer columns

(***************************************************************************)
(* Values.                                                                 *)
(***************************************************************************)
NaN == <<"NaN">>            \* an empty cell, as pandas reads it
None == <<"None">>          \* Python's None
NoQuery == <<"NoQuery">>    \* no search_programs call yet
\* no call remembered yet
NoMemo == [q |-> NoQuery, res |-> <<>>, raised |-> FALSE, others |-> FALSE]

Row(c, n, x) == [ep_code |-> c, ep_name |-> n, cipher_code |-> x]

(***************************************************************************)
(* Python and pandas primitives the code calls.                            *)
(***************************************************************************)
notna(x) == x # NaN

\* str(x): a string is itself, the float NaN prints as "nan"
str(x) == IF x = NaN THEN <<"n", "a", "n">> ELSE x

IsSpace(c) == c \in {" "}

RECURSIVE lstrip(_)
lstrip(s) == IF s # <<>> /\ IsSpace(Head(s)) THEN lstrip(Tail(s)) ELSE s

RECURSIVE rstrip(_)
rstrip(s) ==
    IF s # <<>> /\ IsSpace(s[Len(s)]) THEN rstrip(SubSeq(s, 1, Len(s) - 1)) ELSE s

strip(s) == rstrip(lstrip(s))

\* truth value of a carry-forward variable: None and "" are false
truthy(s) == s # None /\ s # <<>>

UpperLetters == <<"A", "B", "C", "D", "E", "F", "G", "H", "I", "J", "K", "L", "M",
                  "N", "O", "P", "Q", "R", "S", "T", "U", "V", "W", "X", "Y", "Z">>
LowerLetters == <<"a", "b", "c", "d", "e", "f", "g", "h", "i", "j", "k", "l", "m",
                  "n", "o", "p", "q", "r", "s", "t", "u", "v", "w", "x", "y", "z">>

\* case folding of one character, as re.IGNORECASE compares ASCII letters
lower(c) ==
    IF \E i \in 1..Len(UpperLetters) : UpperLetters[i] = c
    THEN LowerLetters[CHOOSE i \in 1..Len(UpperLetters) : UpperLetters[i] = c]
    ELSE c

(***************************************************************************)
(* load_data                                                               *)
(***************************************************************************)
\* the cipher test both branches apply before appending a record
cipher_ok(cipher_code) == cipher_code \notin {<<"n", "a", "n">>, <<>>}

Record(code, name, cipher) ==
    [ep_code |-> code, ep_name |-> name, cipher_code |-> cipher]

\* read_excel returned a frame: the column check, then the loop is entered
ReadExcel ==
    /\ pc = "start"
    /\ \E ncols \in 1..MaxCols :
          IF ncols < MinColumns
          THEN /\ logged' = "error"
               /\ data' = <<>>
               /\ pc' = "ready"
               /\ UNCHANGED <<processed_data, current_ep_code, current_ep_name>>
          ELSE /\ processed_data' = <<>>
               /\ current_ep_code' = None
               /\ current_ep_name' = None
               /\ pc' = "iter"
               /\ UNCHANGED <<data, logged>>
    /\ UNCHANGED <<raw, query, results, raised, status_text, memo>>

\* one iteration of the loop over the rows, on the row r
ProcessRow(r) ==
    /\ pc = "iter"
    /\ Len(raw) < MaxRows
    /\ raw' = Append(raw, r)
    /\ IF notna(r.ep_code) /\ notna(r.ep_name)
       THEN /\ current_ep_code' = strip(str(r.ep_code))
            /\ current_ep_name' = strip(str(r.ep_name))
            /\ IF notna(r.cipher_code) /\ cipher_ok(strip(str(r.cipher_code)))
               THEN processed_data' =
                        Append(processed_data,
                               Record(current_ep_code', current_ep_name',
                                      strip(str(r.cipher_code))))
               ELSE UNCHANGED processed_data
       ELSE /\ UNCHANGED <<current_ep_code, current_ep_name>>
            /\ IF /\ notna(r.cipher_code)
                  /\ truthy(current_ep_code)
                  /\ truthy(current_ep_name)
                  /\ cipher_ok(strip(str(r.cipher_code)))
               THEN processed_data' =
                        Append(processed_data,
                               Record(current_ep_code, current_ep_name,
                                      strip(str(r.cipher_code))))
               ELSE UNCHANGED processed_data
    /\ UNCHANGED <<pc, data, logged, query, results, raised, status_text, memo>>

\* the loop is over: self.data becomes the frame of the emitted records
FinishLoad ==
    /\ pc = "iter"
    /\ data' = processed_data
    /\ logged' = "info"
    /\ pc' = "ready"
    /\ UNCHANGED <<raw, current_ep_code, current_ep_name, processed_data,
                   query, results, raised, status_text, memo>>

\* LoadRaise with the except clause keeping the records emitted so far
LoadRaiseKeepsRecords ==
    /\ pc \in {"start", "iter"}
    /\ logged' = "error"
    /\ data' = processed_data
    /\ pc' = "ready"
    /\ UNCHANGED <<raw, current_ep_code, current_ep_name, processed_data,
                   query, results, raised, status_text, memo>>

\* read_excel, or any later statement of the try block, raised
LoadRaise ==
    /\ pc \in {"start", "iter"}
    /\ logged' = "error"
    /\ data' = <<>>
    /\ pc' = "ready"
    /\ UNCHANGED <<raw, current_ep_code, current_ep_name, processed_data,
                   query, results, raised, status_text, memo>>

(***************************************************************************)
(* Sheets.  LoadRows: every mix of an empty, a whitespace-only and a       *)
(* padded text cell in the three columns, and the rows of three plain      *)
(* programs.                                                               *)
(***************************************************************************)
Blank1 == <<" ">>
Blank2 == <<" ", " ">>
A == <<"A">>
B == <<"B">>
Alpha == <<"A", "l", "p", "h", "a">>
Beta == <<"B", "e", "t", "a">>
c101 == <<"1", "0", "1">>
c102 == <<"1", "0", "2">>
c201 == <<"2", "0", "1">>

LoadRows ==
    { Row(c, n, x) : c \in {NaN, Blank1, <<" ", "A", " ">>},
                     n \in {NaN, Blank2, <<" ", "A", "l", "p", "h", "a">>},
                     x \in {NaN, Blank1, <<" ", "1", "0", "1", " ">>} }
    \cup { Row(A, Alpha, c101), Row(NaN, NaN, c102), Row(B, Beta, c201),
           Row(NaN, NaN, <<" ", "n", "a", "n">>) }

IterrowsLoad == \E r \in LoadRows : ProcessRow(r)

Init ==
    /\ pc = "start"
    /\ raw = <<>>
    /\ current_ep_code = None
    /\ current_ep_name = None
    /\ processed_data = <<>>
    /\ data = <<>>
    /\ logged = "none"
    /\ query = NoQuery
    /\ results = <<>>
    /\ raised = FALSE
    /\ status_text = "none"
    /\ memo = NoMemo

NextLoad == ReadExcel \/ IterrowsLoad \/ FinishLoad \/ LoadRaise

SpecLoad == Init /\ [][NextLoad]_vars

(***************************************************************************)
(* search_programs                                                         *)
(***************************************************************************)
\* one pattern character against one subject character under re.IGNORECASE:
\* "." stands for any character, every other character of the modelled
\* alphabet (letters, digits, the space) for itself
MatchChar(p, c) == p = "." \/ lower(p) = lower(c)

\* Series.str.contains(pat, case=False, na=False): pat is a regular
\* expression, searched for at every position of the subject
contains(s, pat) ==
    \E i \in 1..(Len(s) + 1) :
        /\ i + Len(pat) - 1 <= Len(s)
        /\ \A k \in 1..Len(pat) : MatchChar(pat[k], s[i + k - 1])

IsExact(r, q) == r.cipher_code = q
IsPartial(r, q) == contains(r.cipher_code, q)

exact_matches(d, q) == SelectSeq(d, LAMBDA r : IsExact(r, q))
partial_matches(d, q) == SelectSeq(d, LAMBDA r : IsPartial(r, q))

\* f"{row['ep_code']} - {row['ep_name']}"
Format(r) == r.ep_code \o <<" ", "-", " ">> \o r.ep_name

Range(s) == {s[i] : i \in 1..Len(s)}

\* Collect without the seen set
RECURSIVE CollectAll(_, _)
CollectAll(matches, res) ==
    IF matches = <<>> THEN res
    ELSE CollectAll(Tail(matches), Append(res, Format(Head(matches))))

\* the loop over the matched rows: results grows by each formatted string
\* that is not in seen yet
RECURSIVE Collect(_, _)
Collect(matches, res) ==
    IF matches = <<>> THEN res
    ELSE LET result == Format(Head(matches))
         IN  Collect(Tail(matches),
                     IF result \notin Range(res) THEN Append(res, result) ELSE res)

\* search_programs without the early return of the exact phase
search_programs_no_precedence(d, cipher_query) ==
    Collect(partial_matches(d, strip(cipher_query)), <<>>)

\* search_programs without the strip of its argument
search_programs_unstripped(d, cipher_query) ==
    LET exact == exact_matches(d, cipher_query)
        partial == partial_matches(d, cipher_query)
    IN  IF exact # <<>> THEN Collect(exact, <<>>)
        ELSE IF partial # <<>> THEN Collect(partial, <<>>)
        ELSE <<>>

\* the body of search_programs below its guard, for a string argument
search_programs(d, cipher_query) ==
    LET q == strip(cipher_query)
        exact == exact_matches(d, q)
        partial == partial_matches(d, q)
    IN  IF exact # <<>> THEN Collect(exact, <<>>)
        ELSE IF partial # <<>> THEN Collect(partial, <<>>)
        ELSE <<>>

Queries ==
    { None, <<>>, c101, <<" ", "1", "0", "1", " ">>, <<"1", "0">>,
      <<"1", ".", "1">>, <<"s", "1", "0", "1">>, <<"S", "1", "0", "1">>,
      c201, <<"9">> }

\* history: the first call is remembered; others records that a call with
\* another argument came after it
Remember(q, res, r) ==
    IF memo = NoMemo
    THEN [q |-> q, res |-> res, raised |-> r, others |-> FALSE]
    ELSE [memo EXCEPT !.others = @ \/ q # memo.q]

\* Search with the matched frame written back to self.data
SearchKeepsMatches ==
    /\ pc = "ready"
    /\ \E q \in Queries :
          /\ query' = q
          /\ IF data = <<>>
             THEN results' = <<>> /\ raised' = FALSE /\ data' = data
             ELSE IF q = None
                  THEN results' = <<>> /\ raised' = TRUE /\ data' = data
                  ELSE /\ results' = search_programs(data, q)
                       /\ raised' = FALSE
                       /\ data' = partial_matches(data, strip(q))
          /\ memo' = Remember(q, results', raised')
    /\ UNCHANGED <<pc, raw, current_ep_code, current_ep_name, processed_data,
                   logged, status_text>>

\* one call of search_programs, from search_cipher
Search ==
    /\ pc = "ready"
    /\ \E q \in Queries :
          /\ query' = q
          /\ IF data = <<>>
             THEN results' = <<>> /\ raised' = FALSE
             ELSE IF q = None
                  THEN results' = <<>> /\ raised' = TRUE
                  ELSE results' = search_programs(data, q) /\ raised' = FALSE
          /\ memo' = Remember(q, results', raised')
    /\ UNCHANGED <<loadVars, status_text>>

\* the /status command
Status ==
    /\ pc = "ready"
    /\ status_text' = IF data = <<>> THEN "not loaded" ELSE "ok"
    /\ UNCHANGED <<loadVars, searchVars>>

SearchRows ==
    { Row(A, Alpha, c101), Row(NaN, NaN, c102), Row(B, Beta, c201),
      Row(NaN, NaN, <<" ", "S", "1", "0", "1", " ">>),
      Row(B, Beta, <<"s", "1", "0", "1">>) }

Iterrows == \E r \in SearchRows : ProcessRow(r)

Next == ReadExcel \/ Iterrows \/ FinishLoad \/ LoadRaise \/ Search \/ Status

Spec == Init /\ [][Next]_vars

(***************************************************************************)
(* Vocabulary of the properties.                                           *)
(***************************************************************************)
IsString(q) == q # NoQuery /\ q # None

\* a cell that is absent, or empty after trimming, or the text "nan"
IsBlankCell(x) == x = NaN \/ strip(x) \in {<<>>, <<"n", "a", "n">>}

\* the rows of t that declare a program: code and name both non-blank
Declaring(t) ==
    {i \in 1..Len(t) : ~IsBlankCell(t[i].ep_code) /\ ~IsBlankCell(t[i].ep_name)}

Max(S) == CHOOSE m \in S : \A n \in S : n <= m

\* the program a carry-forward variable attributes rows to: unset and the
\* empty string both attribute them to none
Carry(c) == IF truthy(c) THEN c ELSE None

\* sub occurs in s as a literal substring, letter case ignored
LiteralContains(s, sub) ==
    \E i \in 1..(Len(s) + 1) :
        /\ i + Len(sub) - 1 <= Len(s)
        /\ \A k \in 1..Len(sub) : lower(sub[k]) = lower(s[i + k - 1])

\* q is c with spaces added in front of it and behind it
IsPaddingOf(q, c) ==
    \E a \in 0..Len(q) :
        /\ a + Len(c) <= Len(q)
        /\ SubSeq(q, a + 1, a + Len(c)) = c
        /\ \A k \in 1..Len(q) : (k <= a \/ k > a + Len(c)) => q[k] = " "

HasExact(d, q) == \E i \in 1..Len(d) : d[i].cipher_code = q

\* the records either phase of search_programs selects for the trimmed query q
Selected(d, q) ==
    IF exact_matches(d, q) # <<>> THEN exact_matches(d, q) ELSE partial_matches(d, q)

\* the first record of sel that formats to s
FirstOf(sel, s) ==
    CHOOSE k \in 1..Len(sel) :
        Format(sel[k]) = s /\ \A m \in 1..(k - 1) : Format(sel[m]) # s

ExampleRows == <<Row(A, Alpha, c101), Row(NaN, NaN, c102), Row(B, Beta, c201)>>
ExampleRecords ==
    <<Record(A, Alpha, c101), Record(A, Alpha, c102), Record(B, Beta, c201)>>

(***************************************************************************)
(* Properties.                                                             *)
(***************************************************************************)

\* C1: every record load_data emits has a non-empty ep_code, a non-empty
\* ep_name and a non-empty cipher_code, and no more records are emitted than
\* there are rows with a non-blank cipher.
C1_RecordsNonEmpty ==
    /\ \A i \in 1..Len(processed_data) :
          /\ processed_data[i].ep_code # <<>>
          /\ processed_data[i].ep_name # <<>>
          /\ processed_data[i].cipher_code # <<>>
    /\ Len(processed_data) <=
          Cardinality({i \in 1..Len(raw) : ~IsBlankCell(raw[i].cipher_code)})

\* a record with an empty ep_code has been loaded into self.data
C1_EmptyCodeLoaded ==
    /\ pc = "ready"
    /\ \E i \in 1..Len(data) : data[i].ep_code = <<>>

\* C2: a row with no code and no name but a non-blank cipher, coming after
\* a row that declared a code and a name, emits one record: the code and
\* name of the most recent declaring row with the row's trimmed cipher.
\* The three example rows load to the three example records.
C2_CarryForward ==
    [][ /\ (/\ Len(raw') = Len(raw) + 1
            /\ raw'[Len(raw')].ep_code = NaN
            /\ raw'[Len(raw')].ep_name = NaN
            /\ ~IsBlankCell(raw'[Len(raw')].cipher_code)
            /\ Declaring(raw) # {})
           => processed_data' =
                 Append(processed_data,
                        Record(strip(raw[Max(Declaring(raw))].ep_code),
                               strip(raw[Max(Declaring(raw))].ep_name),
                               strip(raw'[Len(raw')].cipher_code)))
        /\ raw' = ExampleRows => processed_data' = ExampleRecords
      ]_vars

\* C2, the example alone: the three example rows load to the three records
C2_Example == raw = ExampleRows => processed_data = ExampleRecords

\* C9: a row whose code or name is absent or blank leaves the carry-forward
\* state as it was.
C9_BlankRowKeepsCarry ==
    [][ (/\ Len(raw') = Len(raw) + 1
         /\ \/ IsBlankCell(raw'[Len(raw')].ep_code)
            \/ IsBlankCell(raw'[Len(raw')].ep_name))
        => /\ Carry(current_ep_code') = Carry(current_ep_code)
           /\ Carry(current_ep_name') = Carry(current_ep_name)
      ]_vars

\* C3: when some record's cipher equals the trimmed query exactly, every
\* string of the result is the formatted string of such a record.
C3_ExactPrecedence ==
    (pc = "ready" /\ IsString(query) /\ HasExact(data, strip(query)))
    => /\ ~raised
       /\ \A s \in Range(results) :
             \E i \in 1..Len(data) :
                data[i].cipher_code = strip(query) /\ Format(data[i]) = s

\* an exact match won over a record of another program whose cipher
\* contains the query as a proper substring
C3_Witness ==
    /\ pc = "ready" /\ IsString(query) /\ HasExact(data, strip(query))
    /\ results # <<>>
    /\ \E i \in 1..Len(data) :
          /\ data[i].cipher_code # strip(query)
          /\ LiteralContains(data[i].cipher_code, strip(query))
          /\ Format(data[i]) \notin Range(results)

\* C4: when no record's cipher equals the trimmed query, the result holds
\* the formatted strings of exactly the records whose cipher contains the
\* trimmed query as a literal substring, letter case ignored.
C4_LiteralSubstring ==
    (pc = "ready" /\ IsString(query) /\ data # <<>>
        /\ ~HasExact(data, strip(query)))
    => /\ ~raised
       /\ Range(results) =
             {Format(data[i]) :
                i \in {j \in 1..Len(data) :
                         LiteralContains(data[j].cipher_code, strip(query))}}

\* C5: the result has no string twice, holds the formatted string of every
\* selected record, and orders the strings by the first selected record
\* that produces each.
C5_DedupFirstSeen ==
    (pc = "ready" /\ IsString(query) /\ data # <<>>)
    => LET sel == Selected(data, strip(query))
       IN  /\ \A i, j \in 1..Len(results) : i # j => results[i] # results[j]
           /\ Range(results) = {Format(sel[k]) : k \in 1..Len(sel)}
           /\ \A i, j \in 1..Len(results) :
                 i < j => FirstOf(sel, results[i]) < FirstOf(sel, results[j])

\* the substring phase selected two records of one program and a record of
\* another one
C5_Witness ==
    /\ pc = "ready" /\ IsString(query) /\ data # <<>>
    /\ ~HasExact(data, strip(query))
    /\ Len(results) >= 2
    /\ Len(Selected(data, strip(query))) > Len(results)

\* the exact phase selected two records of one program
C5_WitnessExact ==
    /\ pc = "ready" /\ IsString(query)
    /\ Len(exact_matches(data, strip(query))) >= 2
    /\ Len(results) = 1

\* C6: once load_data has failed, it has returned, the record set is empty
\* and every search call, whatever its argument, returns the empty list.
C6_DegradedLoad ==
    logged = "error"
    => /\ pc = "ready"
       /\ data = <<>>
       /\ query # NoQuery => (results = <<>> /\ ~raised)

\* the load failed after records had been emitted, and the empty query,
\* which matches every record, was answered
C6_Witness ==
    /\ logged = "error"
    /\ processed_data # <<>>
    /\ query = <<>>

\* C7: a call with None never raises and returns what the call with the
\* empty string returns.
C7_NoneAsEmpty ==
    (pc = "ready" /\ query = None)
    => /\ ~raised
       /\ results = IF data = <<>> THEN <<>> ELSE search_programs(data, <<>>)

\* C8: no handler changes the record set after the load, and a call with
\* the argument of the remembered call returns what that call returned.
C8_ReadOnlyIdempotent ==
    [][ /\ pc = "ready" => data' = data
        /\ query' = memo'.q => (results' = memo'.res /\ raised' = memo'.raised)
      ]_vars

\* the remembered query was asked again after other queries and a /status,
\* and matched
C8_Witness ==
    /\ memo.others
    /\ query = memo.q
    /\ results # <<>>
    /\ status_text = "ok"

\* C10: a query that is the cipher of a loaded record, with or without
\* spaces around it, returns a non-empty list that holds the record's
\* formatted string and only strings of records with that very cipher.
C10_RoundTrip ==
    (pc = "ready" /\ IsString(query))
    => \A i \in 1..Len(data) :
          IsPaddingOf(query, data[i].cipher_code)
          => /\ ~raised
             /\ results # <<>>
             /\ Format(data[i]) \in Range(results)
             /\ \A s \in Range(results) :
                   \E j \in 1..Len(data) :
                      /\ data[j].cipher_code = data[i].cipher_code
                      /\ Format(data[j]) = s

\* a padded cipher found its record among records with longer ciphers
C10_Witness ==
    /\ pc = "ready" /\ IsString(query)
    /\ query # strip(query)
    /\ \E i \in 1..Len(data) : IsPaddingOf(query, data[i].cipher_code)
    /\ \E i \in 1..Len(data) :
          /\ data[i].cipher_code # strip(query)
          /\ LiteralContains(data[i].cipher_code, strip(query))
    /\ results # <<>>

====
